---- MODULE Spec2Model ----
(***************************************************************************)
(* Deletion engines of the board backend (service/board/delete_post.py and *)
(* service/board_new/board_new.py) over one board's post store, the board  *)
(* counters, the recency index (BoardNew), scraps, the points ledger, the  *)
(* attachment store and the "latest-{board}" cache.                        *)
(*                                                                         *)
(* Spec     : every handler call runs from construction to commit as one   *)
(*            step (one request-scoped unit of work after another).        *)
(* SpecAbort: as Spec, and the store may abort the commit a request        *)
(*            reaches.                                                     *)
(* SpecConc : two requests, construction (the service's __init__, which    *)
(*            loads the row) and execution (validation, deletion, commit)  *)
(*            are separate steps, so both can be constructed before either *)
(*            commits.                                                     *)
(* SpecList : the listing engine (service/board/list_post.py) over the     *)
(*            tables the deletion engines can leave: one listing request   *)
(*            per step.                                                    *)
(* SpecView : a listing as each member sees it, over tables whose comments *)
(*            may be secret.                                               *)
(* SpecWalk : a reader follows next_spt from window to window of a search. *)
(* SpecRace : the page query and the count query of a listing are separate *)
(*            steps, with another request's deletion between them.         *)
(***************************************************************************)
EXTENDS Integers, Sequences, FiniteSets, TLC

VARIABLES
    writes,     \* the board's write table: wr_id -> row, live rows only
    board,      \* the Board row: bo_count_write, bo_count_comment, bo_notice
    board_new,  \* the BoardNew table: bn_id -> row, live rows only
    scrap,      \* the Scrap table: set of <<wr_id, mb_id>>
    point,      \* the ledger's award entries: set of <<mb_id, rel_id, rel_action>>
    mb_point,   \* the members' point balances
    files,      \* wr_ids that have attachments in the attachment store
    cache,      \* TRUE while a "latest-{bo_table}" cache entry exists
    last,       \* the handler call that ran last (Spec) and its result
    req,        \* the requests in flight (SpecConc)
    listing     \* the listing request that ran last (SpecList) and its result

vars == <<writes, board, board_new, scrap, point, mb_point, files, cache, last,
          req, listing>>

-----------------------------------------------------------------------------
(* Bounds of the model *)

\* ids a caller may name: the rows 1..5 of the initial table and ids with no row
MaxId == 6
\* the longest id list given to the bulk handlers
MaxBulk == 2

\* listing requests: the most rows the search filter matches, the lowest
\* window start a caller names, the largest configured window width, the last
\* page and the largest page size asked for
MaxHits == 2
MaxSpt == 2
MaxSearchPart == 1
MaxPage == 2
MaxPerPage == 1

Ids == 1..MaxId
\* the two requests in flight in SpecConc
Requests == {"r1", "r2"}

-----------------------------------------------------------------------------
(* Members (core.models.Member) and the request's member (self.member) *)

Guest == ""
MemberIds == {"root", "mgr", "alice", "bob"}
\* the members who send requests: the super administrator, a group
\* administrator, a member and a guest
Actors == {"root", "mgr", "bob", Guest}

\* self.member.admin_type: "super", "group" or "" (no administrator)
admin_type(mb_id) ==
    CASE mb_id = "root" -> "super"
      [] mb_id = "mgr"  -> "group"
      [] OTHER          -> ""

\* self.member.level / Member.mb_level; a guest has level 1
mb_level(mb_id) ==
    CASE mb_id = "root"  -> 10
      [] mb_id = "mgr"   -> 5
      [] mb_id = "alice" -> 6
      [] mb_id = "bob"   -> 2
      [] OTHER           -> 1

\* the board's configuration fields read by the deletion engines
bo_write_point == 5
bo_comment_point == 1
bo_count_delete == 2

TagWrite == "write"       \* the reason tag of a post's award
TagComment == "comment"   \* the reason tag of a comment's award

-----------------------------------------------------------------------------
(* The initial tables: a thread (post 1 by alice with comments 2 and 3 and  *)
(* the anonymous reply post 4) and a second thread (post 5 by bob, pinned   *)
(* as a notice).                                                            *)

\* wr_content: the text of each row. wr_option: the options of a row, of which
\* the listing reads "secret"; no row of the initial table has an option.
Contents == <<"text 1", "text 2", "text 3", "text 4", "text 5", "text 6">>

Row(id, parent, is_comment, num, reply, mb, ncomment) ==
    [wr_id |-> id, wr_parent |-> parent, wr_is_comment |-> is_comment,
     wr_num |-> num, wr_reply |-> reply, mb_id |-> mb, wr_comment |-> ncomment,
     wr_option |-> {},
     wr_content |-> IF id \in DOMAIN Contents THEN Contents[id] ELSE ""]

Writes0 ==
    (1 :> Row(1, 1, 0, -1, <<>>, "alice", 2)) @@
    (2 :> Row(2, 1, 1, -1, <<>>, "bob", 0)) @@
    (3 :> Row(3, 1, 1, -1, <<>>, Guest, 0)) @@
    (4 :> Row(4, 4, 0, -1, <<"A">>, Guest, 0)) @@
    (5 :> Row(5, 5, 0, -2, <<>>, "bob", 0))

\* the BoardNew rows still in the recency index (bn_id = wr_id here)
BoardNew0 ==
    [bn \in {1, 2} |->
        [bn_id |-> bn, wr_id |-> bn, wr_parent |-> Writes0[bn].wr_parent,
         mb_id |-> Writes0[bn].mb_id]]

Board0 == [bo_count_write |-> 3, bo_count_comment |-> 2, bo_notice |-> {5}]

Scrap0 == {<<1, "bob">>}

Files0 == {1}

\* the award entries of the authoring flows: post 1, comment 2 (recorded under
\* the post's id and under the comment's own id) and post 5
PointAwards ==
    {<<"alice", 1, TagWrite>>, <<"bob", 1, TagComment>>, <<"bob", 2, TagComment>>,
     <<"bob", 5, TagWrite>>}

NoCall == [op |-> "none", wr_id |-> 0, result |-> ""]

NoRow == Row(0, 0, 0, 0, <<>>, Guest, 0)

\* a request: where it stands (idle, constructed, done), the service
\* ("post" or "comment"), its inputs, the row its constructor loaded
\* (self.write / self.comment), its result and the ledger calls it made
IdleReq == [pc |-> "idle", kind |-> "none", wr_id |-> 0, actor |-> Guest,
            with_session |-> FALSE, grant |-> FALSE, loaded |-> NoRow,
            result |-> "", calls |-> <<>>]

\* a missing value (Python's None) is the empty sequence, a value v is <<v>>
None == <<>>
Some(v) == <<v>>

\* a listing request: the inputs of the constructor (kind "search" or "plain",
\* the rows the search filter matches, sst/sod, the spt parameter,
\* cf_search_part), what the constructor left on the service (query, order,
\* prev_spt, next_spt), the inputs of get_writes and what it returned; the
\* request's member, the comments whose ss_secret_comment key the request's
\* session holds, and what the listing shows of the comments of its rows;
\* the notice ids get_writes has put into the query
NoListing == [kind |-> "none", matching |-> {}, sort |-> "default", spt |-> None,
              cf_search_part |-> 0, query |-> {}, order |-> "none",
              prev_spt |-> None, next_spt |-> None,
              pc |-> "idle", page |-> 0, per_page |-> 0, with_notice |-> FALSE,
              rows |-> <<>>, num |-> <<>>, total_count |-> 0,
              member |-> Guest, session |-> {}, comments |-> <<>>,
              notice_ids |-> {}]

Init ==
    /\ writes = Writes0
    /\ board = Board0
    /\ board_new = BoardNew0
    /\ scrap = Scrap0
    /\ point = PointAwards
    /\ mb_point = [m \in MemberIds |-> 10]
    /\ files = Files0
    /\ cache = TRUE
    /\ last = NoCall
    /\ req = [r \in Requests |-> IdleReq]
    /\ listing = NoListing

-----------------------------------------------------------------------------
(* The database as one value, so that a handler is a function from the     *)
(* state it starts in to the state it commits.                             *)

DB == [writes |-> writes, board |-> board, board_new |-> board_new,
       scrap |-> scrap, point |-> point, mb_point |-> mb_point,
       files |-> files, cache |-> cache]

Store(d) ==
    /\ writes' = d.writes
    /\ board' = d.board
    /\ board_new' = d.board_new
    /\ scrap' = d.scrap
    /\ point' = d.point
    /\ mb_point' = d.mb_point
    /\ files' = d.files
    /\ cache' = d.cache

Restrict(f, S) == [x \in S |-> f[x]]

\* db.commit() raises: of the unit of work that took d to d1 the session's
\* changes are gone; the attachment store and the file cache are not part of
\* the session and stay as the unit of work left them
rollback(d, d1) == [d EXCEPT !.files = d1.files, !.cache = d1.cache]

\* the ids of a finite set of integers in ascending order
RECURSIVE SortedSeq(_)
SortedSeq(S) ==
    IF S = {} THEN <<>>
    ELSE LET m == CHOOSE x \in S : \A y \in S : x <= y
         IN  <<m>> \o SortedSeq(S \ {m})

\* SQL: s LIKE 'p%'
Like(s, p) == Len(p) <= Len(s) /\ SubSeq(s, 1, Len(p)) = p

-----------------------------------------------------------------------------
(* External collaborators, by their contracts                              *)

\* lib.board_lib.is_owner: the row has an author and it is mb_id
is_owner(write, mb_id) == write.mb_id # Guest /\ write.mb_id = mb_id

\* PointService.delete_point: TRUE iff a matching award existed (and is reversed)
delete_point_found(d, mb_id, rel_id, rel_action) ==
    <<mb_id, rel_id, rel_action>> \in d.point

delete_point(d, mb_id, rel_id, rel_action) ==
    IF delete_point_found(d, mb_id, rel_id, rel_action)
    THEN [d EXCEPT !.point = @ \ {<<mb_id, rel_id, rel_action>>},
                   !.mb_point[mb_id] = @ -
                       (IF rel_action = TagWrite THEN bo_write_point
                                                 ELSE bo_comment_point)]
    ELSE d

\* PointService.save_point(mb_id, point, content): a guest has no balance
save_point(d, mb_id, delta) ==
    IF mb_id \in MemberIds THEN [d EXCEPT !.mb_point[mb_id] = @ + delta] ELSE d

\* BoardFileService.delete_board_files
delete_board_files(d, wr_id) == [d EXCEPT !.files = @ \ {wr_id}]

\* FileCache().delete_prefix(f'latest-{bo_table}')
delete_prefix(d) == [d EXCEPT !.cache = FALSE]

\* BoardService.set_board_notice(wr_id, False): the notice list without wr_id
set_board_notice(d, wr_id) == d.board.bo_notice \ {wr_id}

\* BoardService.is_delete_by_comment: no more comments than bo_count_delete
is_delete_by_comment(d, wr_id) ==
    Cardinality({i \in DOMAIN d.writes :
                    d.writes[i].wr_parent = wr_id
                    /\ d.writes[i].wr_is_comment = 1}) <= bo_count_delete

\* the ledger calls a handler makes, in order
DeletePointCall(mb_id, rel_id, rel_action, found) ==
    [fn |-> "delete_point", mb_id |-> mb_id, rel_id |-> rel_id,
     rel_action |-> rel_action, point |-> 0, found |-> found, shifted |-> FALSE]

SavePointCall(mb_id, delta) ==
    [fn |-> "save_point", mb_id |-> mb_id, rel_id |-> 0,
     rel_action |-> "", point |-> delta, found |-> FALSE, shifted |-> FALSE]

\* save_point(self.request, mb_id, point, content): the request object is
\* passed where the ledger expects the member id, every argument one place late
ShiftedSavePointCall(mb_id, delta) ==
    [fn |-> "save_point", mb_id |-> mb_id, rel_id |-> 0,
     rel_action |-> "", point |-> delta, found |-> FALSE, shifted |-> TRUE]

\* reverse-or-compensate, as the engines write it:
\*   if not delete_point(mb_id, bo_table, rel_id, tag): save_point(mb_id, -pt, ...)
\* the state after it and the calls made
ReverseOrCompensate(d, mb_id, rel_id, rel_action, pt) ==
    LET found == delete_point_found(d, mb_id, rel_id, rel_action)
        d1 == delete_point(d, mb_id, rel_id, rel_action)
    IN  IF found
        THEN [d |-> d1,
              calls |-> <<DeletePointCall(mb_id, rel_id, rel_action, TRUE)>>]
        ELSE [d |-> save_point(d1, mb_id, pt * (-1)),
              calls |-> <<DeletePointCall(mb_id, rel_id, rel_action, FALSE),
                          SavePointCall(mb_id, pt * (-1))>>]


-----------------------------------------------------------------------------
(* DeletePostService                                                       *)

\* BoardService.get_write: the row, or 404 when there is none
get_write_found(d, wr_id) == wr_id \in DOMAIN d.writes

\* __init__: write_member_level = getattr(write_member, "mb_level", 1)
write_member_level(write) ==
    IF write.mb_id \in MemberIds THEN mb_level(write.mb_id) ELSE 1

\* validate_level without its last block (the check of an anonymous row)
validate_level_nogrant(write, actor, with_session, grant) ==
    IF admin_type(actor) = "super" THEN TRUE
    ELSE IF admin_type(actor) # "" /\ write_member_level(write) > mb_level(actor)
    THEN FALSE
    ELSE IF write.mb_id # Guest /\ ~ is_owner(write, actor)
    THEN FALSE
    ELSE TRUE

\* validate_level: TRUE when no exception is raised
validate_level(write, actor, with_session, grant) ==
    IF admin_type(actor) = "super" THEN TRUE
    ELSE IF admin_type(actor) # "" /\ write_member_level(write) > mb_level(actor)
    THEN FALSE
    ELSE IF write.mb_id # Guest /\ ~ is_owner(write, actor)
    THEN FALSE
    ELSE IF write.mb_id = Guest
    THEN IF with_session /\ ~ grant THEN FALSE
         ELSE IF ~ with_session THEN FALSE
         ELSE TRUE
    ELSE TRUE

\* validate_exists_reply comparing wr_reply for equality instead of LIKE
exists_reply_eq(d, write) ==
    \E i \in DOMAIN d.writes :
        /\ d.writes[i].wr_reply = write.wr_reply
        /\ d.writes[i].wr_num = write.wr_num
        /\ d.writes[i].wr_is_comment = 0
        /\ d.writes[i].wr_id # write.wr_id

\* validate_exists_reply: TRUE when a reply post exists (an exception is raised)
exists_reply(d, write) ==
    \E i \in DOMAIN d.writes :
        /\ Like(d.writes[i].wr_reply, write.wr_reply)
        /\ d.writes[i].wr_num = write.wr_num
        /\ d.writes[i].wr_is_comment = 0
        /\ d.writes[i].wr_id # write.wr_id

\* validate_exists_comment: TRUE when no exception is raised
validate_exists_comment(d, wr_id) == is_delete_by_comment(d, wr_id)

\* the loop's turn that keys every ledger reversal by the row's own id
delete_write_row_own_id(acc, write, wr_id, bad) ==
    IF write.wr_is_comment = 0
    THEN LET rc == ReverseOrCompensate(acc.d, write.mb_id, write.wr_id, TagWrite,
                                       bo_write_point)
         IN  [acc EXCEPT !.d = delete_board_files(rc.d, wr_id),
                         !.calls = @ \o rc.calls,
                         !.delete_write_count = @ + 1]
    ELSE IF delete_point_found(acc.d, write.mb_id, write.wr_id, TagComment)
    THEN [acc EXCEPT !.d = delete_point(acc.d, write.mb_id, write.wr_id,
                                        TagComment),
                     !.calls = Append(@, DeletePointCall(write.mb_id, write.wr_id,
                                                         TagComment, TRUE)),
                     !.delete_comment_count = @ + 1]
    ELSE [acc EXCEPT !.calls = @ \o
                        <<DeletePointCall(write.mb_id, write.wr_id, TagComment,
                                          FALSE),
                          ShiftedSavePointCall(write.mb_id,
                                               bo_comment_point * (-1))>>,
                     !.raised = (bad = "raise"),
                     !.delete_comment_count = @ + 1]

\* the loop's turn without the wr_is_comment test: every row counts as a post
delete_write_row_miscount(acc, write, wr_id, bad) ==
    LET rc == ReverseOrCompensate(acc.d, write.mb_id, wr_id, TagWrite,
                                  bo_write_point)
    IN  [acc EXCEPT !.d = delete_board_files(rc.d, wr_id),
                    !.calls = @ \o rc.calls,
                    !.delete_write_count = @ + 1]

\* one turn of delete_write's loop over the rows with wr_parent = wr_id.
\* bad: what the shifted save_point call of the comment branch does, "raise"
\* (the ledger rejects the request object given as member id) or "ignored"
\* (it matches no member and nothing is saved).
delete_write_row(acc, write, wr_id, bad) ==
    IF write.wr_is_comment = 0
    THEN LET rc == ReverseOrCompensate(acc.d, write.mb_id, wr_id, TagWrite,
                                       bo_write_point)
         IN  [acc EXCEPT !.d = delete_board_files(rc.d, wr_id),
                         !.calls = @ \o rc.calls,
                         !.delete_write_count = @ + 1]
    ELSE IF delete_point_found(acc.d, write.mb_id, wr_id, TagComment)
    THEN [acc EXCEPT !.d = delete_point(acc.d, write.mb_id, wr_id, TagComment),
                     !.calls = Append(@, DeletePointCall(write.mb_id, wr_id,
                                                         TagComment, TRUE)),
                     !.delete_comment_count = @ + 1]
    ELSE [acc EXCEPT !.calls = @ \o
                        <<DeletePointCall(write.mb_id, wr_id, TagComment, FALSE),
                          ShiftedSavePointCall(write.mb_id,
                                               bo_comment_point * (-1))>>,
                     !.raised = (bad = "raise"),
                     !.delete_comment_count = @ + 1]

RECURSIVE delete_write_loop(_, _, _, _)
delete_write_loop(acc, rows, wr_id, bad) ==
    IF rows = <<>> \/ acc.raised THEN acc
    ELSE delete_write_loop(delete_write_row(acc, Head(rows), wr_id, bad),
                           Tail(rows), wr_id, bad)

\* the rows delete_write selects: wr_parent = wr_id, ordered by wr_id
delete_write_rows(d, wr_id) ==
    LET ids == SortedSeq({i \in DOMAIN d.writes : d.writes[i].wr_parent = wr_id})
    IN  [k \in 1..Len(ids) |-> d.writes[ids[k]]]

\* delete_write: the state it leaves, the ledger calls it made and whether it
\* raised. When it raises nothing is committed and the session's changes are
\* gone; the attachments already removed from the attachment store stay removed.
delete_write(d, wr_id, bad) ==
    LET acc == delete_write_loop(
                   [d |-> d, calls |-> <<>>, raised |-> FALSE,
                    delete_write_count |-> 0, delete_comment_count |-> 0],
                   delete_write_rows(d, wr_id), wr_id, bad)
        d1 == acc.d
        kept == {i \in DOMAIN d1.writes : d1.writes[i].wr_parent # wr_id}
        d2 == [d1 EXCEPT
                 !.writes = Restrict(@, kept),
                 !.board_new = Restrict(@, {b \in DOMAIN @ : @[b].wr_parent # wr_id}),
                 !.scrap = {s \in @ : s[1] # wr_id},
                 !.board = [bo_notice |-> set_board_notice(d1, wr_id),
                            bo_count_write |->
                                d1.board.bo_count_write - acc.delete_write_count,
                            bo_count_comment |->
                                d1.board.bo_count_comment - acc.delete_comment_count]]
    IN  IF acc.raised
        THEN [d |-> [d EXCEPT !.files = d1.files], calls |-> acc.calls,
              raised |-> TRUE]
        ELSE [d |-> delete_prefix(d2), calls |-> acc.calls, raised |-> FALSE]

\* delete_write when db.commit() (line 146) raises: the loop has run, nothing
\* is committed and line 150 is not reached
delete_write_aborted(d, wr_id, bad) ==
    LET acc == delete_write_loop(
                   [d |-> d, calls |-> <<>>, raised |-> FALSE,
                    delete_write_count |-> 0, delete_comment_count |-> 0],
                   delete_write_rows(d, wr_id), wr_id, bad)
    IN  [d |-> rollback(d, acc.d), calls |-> acc.calls, raised |-> TRUE]

\* a handler's outcome
Outcome(d, result, calls) == [d |-> d, result |-> result, calls |-> calls]

\* the delete-post endpoint once the service is constructed with `write`
\* loaded: validate_level, validate_exists_reply, validate_exists_comment,
\* delete_write
run_delete_post(d, write, actor, with_session, grant, bad) ==
    IF ~ validate_level(write, actor, with_session, grant)
    THEN Outcome(d, "PermissionDenied", <<>>)
    ELSE IF exists_reply(d, write)
    THEN Outcome(d, "Conflict", <<>>)
    ELSE IF ~ validate_exists_comment(d, write.wr_id)
    THEN Outcome(d, "Conflict", <<>>)
    ELSE LET r == delete_write(d, write.wr_id, bad)
         IN  Outcome(r.d, IF r.raised THEN "Error" ELSE "ok", r.calls)


\* the same endpoint when the store aborts delete_write's commit
run_delete_post_aborted(d, write, actor, with_session, grant, bad) ==
    IF run_delete_post(d, write, actor, with_session, grant, bad).result # "ok"
    THEN run_delete_post(d, write, actor, with_session, grant, bad)
    ELSE LET r == delete_write_aborted(d, write.wr_id, bad)
         IN  Outcome(r.d, "StoreFailure", r.calls)

-----------------------------------------------------------------------------
(* DeleteCommentService                                                    *)

\* get_comment without the wr_is_comment test: any row passes for a comment
get_comment_any_row(d, comment_id) ==
    IF comment_id \notin DOMAIN d.writes THEN "NotFound"
    ELSE "ok"

\* get_comment: "ok", 404 when the row is missing, 400 when it is no comment
get_comment(d, comment_id) ==
    IF comment_id \notin DOMAIN d.writes THEN "NotFound"
    ELSE IF d.writes[comment_id].wr_is_comment = 0 THEN "TypeMismatch"
    ELSE "ok"

\* check_authority without the refusal of the API request: an anonymous
\* comment is decided by the grant alone, and with no session to read it from
\* the request passes
check_authority_api_open(comment, actor, with_session, grant) ==
    IF admin_type(actor) # "" THEN TRUE
    ELSE IF comment.mb_id = Guest
    THEN IF ~ with_session THEN TRUE
         ELSE IF grant THEN TRUE
         ELSE FALSE
    ELSE IF ~ is_owner(comment, actor) THEN FALSE
    ELSE TRUE

\* check_authority: TRUE when no exception is raised
check_authority(comment, actor, with_session, grant) ==
    IF admin_type(actor) # "" THEN TRUE
    ELSE IF comment.mb_id = Guest
    THEN IF ~ with_session THEN FALSE
         ELSE IF grant THEN TRUE
         ELSE FALSE
    ELSE IF ~ is_owner(comment, actor) THEN FALSE
    ELSE TRUE

\* delete_comment whose UPDATE matches the comment's own id, not its parent's
delete_comment_nodec(d, comment) ==
    [d EXCEPT !.writes =
        [i \in DOMAIN @ \ {comment.wr_id} |->
            IF i = comment.wr_id
            THEN [@[i] EXCEPT !.wr_comment = @ - 1]
            ELSE @[i]]]

\* delete_comment: delete the row, wr_comment - 1 on the row with
\* wr_id = comment.wr_parent, commit
delete_comment(d, comment) ==
    [d EXCEPT !.writes =
        [i \in DOMAIN @ \ {comment.wr_id} |->
            IF i = comment.wr_parent
            THEN [@[i] EXCEPT !.wr_comment = @ - 1]
            ELSE @[i]]]

\* the delete-comment endpoint once the service is constructed with
\* `comment` loaded: check_authority, delete_comment
run_delete_comment(d, comment, actor, with_session, grant) ==
    IF ~ check_authority(comment, actor, with_session, grant)
    THEN Outcome(d, "PermissionDenied", <<>>)
    ELSE Outcome(delete_comment(d, comment), "ok", <<>>)

\* the same endpoint when the store aborts delete_comment's commit (line 234)
run_delete_comment_aborted(d, comment, actor, with_session, grant) ==
    IF ~ check_authority(comment, actor, with_session, grant)
    THEN Outcome(d, "PermissionDenied", <<>>)
    ELSE Outcome(rollback(d, delete_comment(d, comment)), "StoreFailure", <<>>)

-----------------------------------------------------------------------------
(* ListDeleteService                                                       *)

RECURSIVE delete_writes_loop(_, _)
delete_writes_loop(acc, rows) ==
    IF rows = <<>> THEN acc
    ELSE LET write == Head(rows)
             d1 == [acc.d EXCEPT !.writes = Restrict(@, DOMAIN @ \ {write.wr_id})]
             rc == ReverseOrCompensate(d1, write.mb_id, write.wr_id, TagWrite,
                                       bo_write_point)
         IN  delete_writes_loop(
                 [d |-> delete_board_files(rc.d, write.wr_id),
                  calls |-> acc.calls \o rc.calls],
                 Tail(rows))

\* delete_writes that also lowers the board's post counter by the posts removed
delete_writes_counted(d, wr_ids) ==
    LET ids == SortedSeq(wr_ids \cap DOMAIN d.writes)
        acc == delete_writes_loop([d |-> d, calls |-> <<>>],
                                  [k \in 1..Len(ids) |-> d.writes[ids[k]]])
        posts == {i \in wr_ids \cap DOMAIN d.writes : d.writes[i].wr_is_comment = 0}
    IN  Outcome(delete_prefix(
                    [acc.d EXCEPT !.board.bo_count_write = @ - Cardinality(posts)]),
                "ok", acc.calls)

\* delete_writes: the rows with wr_id in wr_ids (read in wr_id order), commit,
\* cache prefix
delete_writes(d, wr_ids) ==
    LET ids == SortedSeq(wr_ids \cap DOMAIN d.writes)
        acc == delete_writes_loop([d |-> d, calls |-> <<>>],
                                  [k \in 1..Len(ids) |-> d.writes[ids[k]]])
    IN  Outcome(delete_prefix(acc.d), "ok", acc.calls)

\* delete_writes when db.commit() (line 284) raises: line 287 is not reached
delete_writes_aborted(d, wr_ids) ==
    LET ids == SortedSeq(wr_ids \cap DOMAIN d.writes)
        acc == delete_writes_loop([d |-> d, calls |-> <<>>],
                                  [k \in 1..Len(ids) |-> d.writes[ids[k]]])
    IN  Outcome(rollback(d, acc.d), "StoreFailure", acc.calls)

-----------------------------------------------------------------------------
(* BoardNewService                                                         *)

\* the loop's turn that skips a row whose post is gone (`continue`), leaving
\* the index row in place
delete_board_news_row_keep_stale(acc, new) ==
    LET d == acc.d
    IN  IF new.wr_id \in DOMAIN d.writes
        THEN LET write == d.writes[new.wr_id]
                 d1 == [d EXCEPT !.writes = Restrict(@, DOMAIN @ \ {write.wr_id})]
                 rc == IF write.wr_is_comment = 0
                       THEN ReverseOrCompensate(d1, write.mb_id, write.wr_id,
                                                TagWrite, bo_write_point)
                       ELSE ReverseOrCompensate(d1, write.mb_id, write.wr_id,
                                                TagComment, bo_comment_point)
                 d2 == delete_board_files(rc.d, write.wr_id)
             IN  [d |-> delete_prefix(
                            [d2 EXCEPT !.board_new =
                                Restrict(@, DOMAIN @ \ {new.bn_id})]),
                  calls |-> acc.calls \o rc.calls]
        ELSE acc

\* one turn of delete_board_news's loop
delete_board_news_row(acc, new) ==
    LET d == acc.d
        d0 == IF new.wr_id \in DOMAIN d.writes
              THEN LET write == d.writes[new.wr_id]
                       d1 == [d EXCEPT !.writes =
                                 Restrict(@, DOMAIN @ \ {write.wr_id})]
                       rc == IF write.wr_is_comment = 0
                             THEN ReverseOrCompensate(d1, write.mb_id, write.wr_id,
                                                      TagWrite, bo_write_point)
                             ELSE ReverseOrCompensate(d1, write.mb_id, write.wr_id,
                                                      TagComment, bo_comment_point)
                   IN  [d |-> delete_board_files(rc.d, write.wr_id),
                        calls |-> acc.calls \o rc.calls]
              ELSE acc
    IN  [d |-> delete_prefix(
                   [d0.d EXCEPT !.board_new = Restrict(@, DOMAIN @ \ {new.bn_id})]),
         calls |-> d0.calls]

RECURSIVE delete_board_news_loop(_, _)
delete_board_news_loop(acc, news) ==
    IF news = <<>> THEN acc
    ELSE delete_board_news_loop(delete_board_news_row(acc, Head(news)), Tail(news))

\* delete_board_news: the BoardNew rows with bn_id in bn_ids (read in bn_id
\* order), commit
delete_board_news(d, bn_ids) ==
    LET ids == SortedSeq(bn_ids \cap DOMAIN d.board_new)
        acc == delete_board_news_loop([d |-> d, calls |-> <<>>],
                                      [k \in 1..Len(ids) |-> d.board_new[ids[k]]])
    IN  Outcome(acc.d, "ok", acc.calls)

\* delete_board_news when db.commit() (line 198) raises
delete_board_news_aborted(d, bn_ids) ==
    LET ids == SortedSeq(bn_ids \cap DOMAIN d.board_new)
        acc == delete_board_news_loop([d |-> d, calls |-> <<>>],
                                      [k \in 1..Len(ids) |-> d.board_new[ids[k]]])
    IN  Outcome(rollback(d, acc.d), "StoreFailure", acc.calls)

-----------------------------------------------------------------------------
(* Spec: one handler call per step                                         *)

\* what the caller of a handler sees: the handler, the id it was given (0 for
\* a list of ids) and its result
Call(op, wr_id, out) == [op |-> op, wr_id |-> wr_id, result |-> out.result]

\* a constructor that goes on with an empty row when get_write finds none
delete_post_noload(d, wr_id, actor, with_session, grant, bad) ==
    run_delete_post(d,
                    IF get_write_found(d, wr_id) THEN d.writes[wr_id]
                    ELSE [NoRow EXCEPT !.wr_id = wr_id],
                    actor, with_session, grant, bad)

\* DeletePostService.__init__ and the delete-post endpoint
delete_post(d, wr_id, actor, with_session, grant, bad) ==
    IF ~ get_write_found(d, wr_id)
    THEN Outcome(d, "NotFound", <<>>)
    ELSE run_delete_post(d, d.writes[wr_id], actor, with_session, grant, bad)

\* DeleteCommentService.__init__ and the delete-comment endpoint
delete_comment_request(d, comment_id, actor, with_session, grant) ==
    IF ~ get_write_found(d, comment_id)
    THEN Outcome(d, "NotFound", <<>>)
    ELSE IF get_comment(d, comment_id) # "ok"
    THEN Outcome(d, get_comment(d, comment_id), <<>>)
    ELSE run_delete_comment(d, d.writes[comment_id], actor, with_session, grant)

\* the delete-post request whose commit the store aborts
delete_post_aborted(d, wr_id, actor, with_session, grant, bad) ==
    IF ~ get_write_found(d, wr_id)
    THEN Outcome(d, "NotFound", <<>>)
    ELSE run_delete_post_aborted(d, d.writes[wr_id], actor, with_session, grant,
                                 bad)

\* the delete-comment request whose commit the store aborts
delete_comment_request_aborted(d, comment_id, actor, with_session, grant) ==
    IF ~ get_write_found(d, comment_id)
    THEN Outcome(d, "NotFound", <<>>)
    ELSE IF get_comment(d, comment_id) # "ok"
    THEN Outcome(d, get_comment(d, comment_id), <<>>)
    ELSE run_delete_comment_aborted(d, d.writes[comment_id], actor, with_session,
                                    grant)

Bads == {"raise", "ignored"}
IdLists == {S \in SUBSET Ids : Cardinality(S) <= MaxBulk}
\* a request's mode: with_session (template) with or without the session's
\* deletion grant, or the API, which has no session
Modes == {<<TRUE, TRUE>>, <<TRUE, FALSE>>, <<FALSE, FALSE>>}

DeletePost(wr_id, actor, with_session, grant, bad) ==
    LET out == delete_post(DB, wr_id, actor, with_session, grant, bad)
    IN  /\ Store(out.d)
        /\ last' = Call("delete_post", wr_id, out)
        /\ UNCHANGED <<req, listing>>

DeleteComment(comment_id, actor, with_session, grant) ==
    LET out == delete_comment_request(DB, comment_id, actor, with_session, grant)
    IN  /\ Store(out.d)
        /\ last' = Call("delete_comment", comment_id, out)
        /\ UNCHANGED <<req, listing>>

DeleteWrites(wr_ids) ==
    LET out == delete_writes(DB, wr_ids)
    IN  /\ Store(out.d)
        /\ last' = Call("delete_writes", 0, out)
        /\ UNCHANGED <<req, listing>>

DeleteBoardNews(bn_ids) ==
    LET out == delete_board_news(DB, bn_ids)
    IN  /\ Store(out.d)
        /\ last' = Call("delete_board_news", 0, out)
        /\ UNCHANGED <<req, listing>>

\* the same requests when the store aborts the commit they reach. What an
\* aborted unit of work leaves does not depend on who sent the request; the
\* super administrator passes every authorization check, so their requests
\* reach every commit that any request reaches.
AbortActor == "root"

DeletePostAborted(wr_id, actor, with_session, grant, bad) ==
    LET out == delete_post_aborted(DB, wr_id, actor, with_session, grant, bad)
    IN  /\ out.result = "StoreFailure"
        /\ Store(out.d)
        /\ last' = Call("delete_post", wr_id, out)
        /\ UNCHANGED <<req, listing>>

DeleteCommentAborted(comment_id, actor, with_session, grant) ==
    LET out == delete_comment_request_aborted(DB, comment_id, actor, with_session,
                                              grant)
    IN  /\ out.result = "StoreFailure"
        /\ Store(out.d)
        /\ last' = Call("delete_comment", comment_id, out)
        /\ UNCHANGED <<req, listing>>

DeleteWritesAborted(wr_ids) ==
    LET out == delete_writes_aborted(DB, wr_ids)
    IN  /\ Store(out.d)
        /\ last' = Call("delete_writes", 0, out)
        /\ UNCHANGED <<req, listing>>

DeleteBoardNewsAborted(bn_ids) ==
    LET out == delete_board_news_aborted(DB, bn_ids)
    IN  /\ Store(out.d)
        /\ last' = Call("delete_board_news", 0, out)
        /\ UNCHANGED <<req, listing>>

\* the shifted save_point call is only reached from a comment row
BadsFor(wr_id) ==
    IF \E i \in DOMAIN writes :
           writes[i].wr_parent = wr_id /\ writes[i].wr_is_comment = 1
    THEN Bads ELSE {"ignored"}

Next ==
    \/ \E wr_id \in Ids, actor \in Actors, mode \in Modes :
         \E bad \in BadsFor(wr_id) :
           DeletePost(wr_id, actor, mode[1], mode[2], bad)
    \/ \E comment_id \in Ids, actor \in Actors, mode \in Modes :
           DeleteComment(comment_id, actor, mode[1], mode[2])
    \/ \E wr_ids \in IdLists : DeleteWrites(wr_ids)
    \/ \E bn_ids \in IdLists : DeleteBoardNews(bn_ids)

Spec == Init /\ [][Next]_vars

-----------------------------------------------------------------------------
(* SpecAbort: as Spec, and the store may abort the commit of a request     *)

NextAbort ==
    \/ Next
    \/ \E wr_id \in Ids : \E bad \in BadsFor(wr_id) :
           DeletePostAborted(wr_id, AbortActor, TRUE, FALSE, bad)
    \/ \E comment_id \in Ids :
           DeleteCommentAborted(comment_id, AbortActor, TRUE, FALSE)
    \/ \E wr_ids \in IdLists : DeleteWritesAborted(wr_ids)
    \/ \E bn_ids \in IdLists : DeleteBoardNewsAborted(bn_ids)

SpecAbort == Init /\ [][NextAbort]_vars


-----------------------------------------------------------------------------
(* SpecConc: two requests whose construction and execution interleave.     *)
(* Statements read the committed table at the time they run; a request's   *)
(* own row (self.write, self.comment) is the one its constructor loaded.   *)

\* the requests of SpecConc come from the super administrator's session
ConcActor == "root"
Kinds == {"post", "comment"}

\* DeletePostService.__init__ / DeleteCommentService.__init__
Construct(r, kind, wr_id) ==
    /\ req[r].pc = "idle"
    /\ LET result == IF ~ get_write_found(DB, wr_id) THEN "NotFound"
                     ELSE IF kind = "comment" THEN get_comment(DB, wr_id)
                     ELSE "ok"
       IN  req' = [req EXCEPT ![r] =
                     [pc |-> IF result = "ok" THEN "constructed" ELSE "done",
                      kind |-> kind, wr_id |-> wr_id, actor |-> ConcActor,
                      with_session |-> TRUE, grant |-> FALSE,
                      loaded |-> IF result = "ok" THEN writes[wr_id] ELSE NoRow,
                      result |-> IF result = "ok" THEN "" ELSE result,
                      calls |-> <<>>]]
    /\ UNCHANGED <<writes, board, board_new, scrap, point, mb_point, files,
                   cache, last, listing>>

\* the endpoint's body: validation, deletion, commit
Execute(r, bad) ==
    /\ req[r].pc = "constructed"
    /\ LET q == req[r]
           out == IF q.kind = "post"
                  THEN run_delete_post(DB, q.loaded, q.actor, q.with_session,
                                       q.grant, bad)
                  ELSE run_delete_comment(DB, q.loaded, q.actor, q.with_session,
                                          q.grant)
       IN  /\ Store(out.d)
           /\ req' = [req EXCEPT ![r].pc = "done", ![r].result = out.result,
                                 ![r].calls = out.calls]
    /\ UNCHANGED <<last, listing>>

NextConc ==
    \/ \E r \in Requests, kind \in Kinds, wr_id \in Ids : Construct(r, kind, wr_id)
    \/ \E r \in Requests : \E bad \in BadsFor(req[r].wr_id) : Execute(r, bad)

SpecConc == Init /\ [][NextConc]_vars


-----------------------------------------------------------------------------
(* ListPostService                                                         *)

\* self.page_rows (BoardConfig): the board's configured page size
page_rows_config == 2
\* int(self.config.cf_search_part) or 10000
DefaultSearchPart == 10000

search_part(cf_search_part) ==
    IF cf_search_part # 0 THEN cf_search_part ELSE DefaultSearchPart

\* select(func.coalesce(func.min(wr_num), 0))
min_spt(ws) ==
    IF DOMAIN ws = {} THEN 0
    ELSE LET nums == {ws[i].wr_num : i \in DOMAIN ws}
         IN  CHOOSE m \in nums : \A n \in nums : m <= n

\* int(self.request.query_params.get("spt", min_spt))
spt_of(spt_param, ws) == IF spt_param = None THEN min_spt(ws) ELSE spt_param[1]

\* self.prev_spt, self.next_spt as get_query computes them
prev_spt(spt, W, ws) == IF spt > min_spt(ws) THEN Some(spt - W) ELSE None
next_spt(spt, W) == IF spt + W < 0 THEN Some(spt + W) ELSE None

\* SQL: x BETWEEN lo AND hi
between(x, lo, hi) == lo <= x /\ x <= hi

\* the rank of a reply letter, and ORDER BY on wr_reply
LetterRank(c) == CASE c = "A" -> 1 [] c = "B" -> 2 [] OTHER -> 3

RECURSIVE ReplyLess(_, _)
ReplyLess(a, b) ==
    IF b = <<>> THEN FALSE
    ELSE IF a = <<>> THEN TRUE
    ELSE IF LetterRank(Head(a)) # LetterRank(Head(b))
    THEN LetterRank(Head(a)) < LetterRank(Head(b))
    ELSE ReplyLess(Tail(a), Tail(b))

\* row a comes before row b: in the board's default ordering (get_list_sort_query:
\* wr_num, wr_reply), or by the explicit sort field wr_id
RowLess(order, a, b) ==
    CASE order = "default" ->
             \/ a.wr_num < b.wr_num
             \/ a.wr_num = b.wr_num /\ ReplyLess(a.wr_reply, b.wr_reply)
      [] order = "wr_id asc"  -> a.wr_id < b.wr_id
      [] order = "wr_id desc" -> a.wr_id > b.wr_id

\* the ids S of rows of ws in the given order
RECURSIVE OrderBy(_, _, _)
OrderBy(ws, S, order) ==
    IF S = {} THEN <<>>
    ELSE LET m == CHOOSE x \in S :
                      \A y \in S \ {x} : RowLess(order, ws[x], ws[y])
         IN  <<m>> \o OrderBy(ws, S \ {m}, order)

\* get_query whose search branch keeps the matching rows themselves
get_query_no_parent(ws, kind, matching, sort, spt_param, cf_search_part) ==
    IF kind = "search"
    THEN LET W == search_part(cf_search_part)
             spt == spt_of(spt_param, ws)
             hits == {i \in matching : between(ws[i].wr_num, spt, spt + W)}
         IN  [query |-> hits,
              order |-> "none",
              prev_spt |-> prev_spt(spt, W, ws),
              next_spt |-> next_spt(spt, W)]
    ELSE [query |-> {i \in DOMAIN ws : ws[i].wr_is_comment = 0},
          order |-> sort, prev_spt |-> None, next_spt |-> None]

\* get_query. matching: the rows write_search_filter selects. A search keeps
\* the matching rows of the window, collects their distinct wr_parent and
\* selects the rows whose wr_id is among them, in a new select() with no
\* ORDER BY; a plain listing keeps the non-comment rows in the sort order.
get_query(ws, kind, matching, sort, spt_param, cf_search_part) ==
    IF kind = "search"
    THEN LET W == search_part(cf_search_part)
             spt == spt_of(spt_param, ws)
             hits == {i \in matching : between(ws[i].wr_num, spt, spt + W)}
             subquery == {ws[i].wr_parent : i \in hits}
         IN  [query |-> {i \in DOMAIN ws : ws[i].wr_id \in subquery},
              order |-> "none",
              prev_spt |-> prev_spt(spt, W, ws),
              next_spt |-> next_spt(spt, W)]
    ELSE [query |-> {i \in DOMAIN ws : ws[i].wr_is_comment = 0},
          order |-> sort, prev_spt |-> None, next_spt |-> None]

\* __init__: self.query = self.get_query(search_params), and then
\* self.prev_spt = None and self.next_spt = None
ListPostService(ws, kind, matching, sort, spt_param, cf_search_part) ==
    LET q == get_query(ws, kind, matching, sort, spt_param, cf_search_part)
    IN  [NoListing EXCEPT !.kind = kind, !.matching = matching, !.sort = sort,
                          !.spt = spt_param, !.cf_search_part = cf_search_part,
                          !.query = q.query, !.order = q.order,
                          !.prev_spt = None, !.next_spt = None,
                          !.pc = "constructed"]

\* get_total_count: the count of self.query
get_total_count(query) == Cardinality(query)

\* write.num = total_count - offset - writes.index(write), for the row at
\* position k (from 1) of the page
num_no_offset(total_count, offset, k) == total_count - (k - 1)

num(total_count, offset, k) == total_count - offset - (k - 1)

\* get_writes. db_order: the order in which the store returns the rows of a
\* query that has no ORDER BY.
get_writes(ws, notice_ids, l, page, per_page, with_notice, db_order) ==
    LET page_rows == IF per_page # 0 THEN per_page ELSE page_rows_config
        query == IF ~ with_notice THEN l.query \ notice_ids ELSE l.query
        offset == (page - 1) * page_rows
        all == OrderBy(ws, query, IF l.order = "none" THEN db_order ELSE l.order)
        last_row == IF offset + page_rows < Len(all) THEN offset + page_rows
                    ELSE Len(all)
        writes_page == SubSeq(all, offset + 1, last_row)
        total_count == get_total_count(query)
    IN  [l EXCEPT !.pc = "done", !.page = page, !.per_page = per_page,
                  !.with_notice = with_notice, !.query = query,
                  !.rows = writes_page,
                  !.total_count = total_count,
                  !.num = [k \in 1..Len(writes_page) |->
                              num(total_count, offset, k)]]

\* the rows self.query selects when it is executed on the table ws: the query
\* is built by the constructor and sent to the store by get_writes, once for
\* the page and once for the count. l.spt is the start of the window as the
\* constructor resolved it.
exec_query(ws, l) ==
    get_query(ws, l.kind, l.matching \cap DOMAIN ws, l.sort, l.spt,
              l.cf_search_part).query \ l.notice_ids

\* get_writes up to the page query (lines 163-182), executed on the table ws
get_writes_page(ws, notice_ids, l, page, per_page, with_notice, db_order) ==
    LET page_rows == IF per_page # 0 THEN per_page ELSE page_rows_config
        l1 == [l EXCEPT !.notice_ids = IF ~ with_notice THEN notice_ids ELSE {}]
        query == exec_query(ws, l1)
        offset == (page - 1) * page_rows
        all == OrderBy(ws, query, IF l.order = "none" THEN db_order ELSE l.order)
        last_row == IF offset + page_rows < Len(all) THEN offset + page_rows
                    ELSE Len(all)
    IN  [l1 EXCEPT !.pc = "paged", !.page = page, !.per_page = per_page,
                   !.with_notice = with_notice, !.query = query,
                   !.rows = SubSeq(all, offset + 1, last_row)]

\* get_writes from the count query on (lines 184-189), executed on the table
\* ws. Both queries run in one transaction of the request's session:
\* sees_commit tells whether the store lets the second statement see what
\* was committed after the first (read committed) or not (a snapshot of the
\* transaction).
get_writes_count(ws, l, sees_commit) ==
    LET page_rows == IF l.per_page # 0 THEN l.per_page ELSE page_rows_config
        offset == (l.page - 1) * page_rows
        total_count == get_total_count(IF sees_commit THEN exec_query(ws, l)
                                       ELSE l.query)
    IN  [l EXCEPT !.pc = "done",
                  !.total_count = total_count,
                  !.num = [k \in 1..Len(l.rows) |->
                              num(total_count, offset, k)]]

\* comment.save_content of a redacted secret comment: the fixed text of line
\* 141 ("this is a secret post"), which no row has as its wr_content
SecretPlaceholder == "secret post"

\* the comment loop's turn without the test of the parent post's author
comment_info_no_parent_owner(ws, comment, member, session) ==
    LET is_secret == "secret" \in comment.wr_option
        redact == /\ is_secret
                  /\ admin_type(member) = ""
                  /\ ~ is_owner(comment, member)
                  /\ comment.wr_id \notin session
    IN  [wr_id |-> comment.wr_id,
         is_secret |-> is_secret,
         is_secret_content |-> redact,
         save_content |-> IF redact THEN SecretPlaceholder
                          ELSE comment.wr_content]

\* add_additional_info_to_writes, one turn of the loop over a row's comments:
\* is_secret, is_secret_content and save_content. session: the comments c for
\* which the request's session holds ss_secret_comment_{bo_table}_{c}.
comment_info(ws, comment, member, session) ==
    LET is_secret == "secret" \in comment.wr_option
        parent_write == ws[comment.wr_parent]
        redact == /\ is_secret
                  /\ admin_type(member) = ""
                  /\ ~ is_owner(comment, member)
                  /\ ~ is_owner(parent_write, member)
                  /\ comment.wr_id \notin session
    IN  [wr_id |-> comment.wr_id,
         is_secret |-> is_secret,
         is_secret_content |-> redact,
         save_content |-> IF redact THEN SecretPlaceholder
                          ELSE comment.wr_content]

\* add_additional_info_to_writes: to each row of the page its comments (the
\* rows with wr_parent = write.wr_id and wr_is_comment = 1), each as the
\* request's member may see it
add_additional_info_to_writes(ws, l, member, session) ==
    LET shown == {c \in DOMAIN ws :
                    /\ ws[c].wr_is_comment = 1
                    /\ \E k \in 1..Len(l.rows) : ws[c].wr_parent = l.rows[k]}
    IN  [l EXCEPT !.member = member, !.session = session,
                  !.comments = [c \in shown |->
                                   comment_info(ws, ws[c], member, session)]]

-----------------------------------------------------------------------------
(* SpecList: a listing request over a table the deletion engines can leave *)

\* the tables a listing can find: the initial one, whole or with one row
\* removed by the bulk handler
ListStores ==
    {Writes0} \cup
    {Restrict(Writes0, DOMAIN Writes0 \ {i}) : i \in DOMAIN Writes0}

InitList ==
    /\ writes \in ListStores
    /\ board \in {Board0, [Board0 EXCEPT !.bo_notice = {}]}
    /\ board_new = BoardNew0
    /\ scrap = Scrap0
    /\ point = PointAwards
    /\ mb_point = [m \in MemberIds |-> 10]
    /\ files = Files0
    /\ cache = TRUE
    /\ last = NoCall
    /\ req = [r \in Requests |-> IdleReq]
    /\ listing = NoListing

Sorts == {"default", "wr_id desc"}
SptParams == {None} \cup {Some(n) : n \in (0 - MaxSpt)..0}
Matchings == {S \in SUBSET DOMAIN writes : Cardinality(S) <= MaxHits}
\* the orders a store may return the rows of an unordered query in
DbOrders == {"wr_id asc", "wr_id desc"}

\* the constructor of a search listing
ListSearch(matching, sort, spt_param, cf_search_part) ==
    /\ listing.pc = "idle"
    /\ listing' = ListPostService(writes, "search", matching, sort, spt_param,
                                  cf_search_part)
    /\ UNCHANGED <<writes, board, board_new, scrap, point, mb_point, files,
                   cache, last, req>>

\* the constructor of a listing with no search: write_search_filter selects
\* every row and cf_search_part is not read
ListPlain(sort) ==
    /\ listing.pc = "idle"
    /\ listing' = ListPostService(writes, "plain", DOMAIN writes, sort, None, 0)
    /\ UNCHANGED <<writes, board, board_new, scrap, point, mb_point, files,
                   cache, last, req>>

GetWrites(page, per_page, with_notice, db_order) ==
    /\ listing.pc = "constructed"
    /\ listing' = get_writes(writes, board.bo_notice, listing, page, per_page,
                             with_notice, db_order)
    /\ UNCHANGED <<writes, board, board_new, scrap, point, mb_point, files,
                   cache, last, req>>

NextList ==
    \/ \E matching \in Matchings, sort \in Sorts, spt_param \in SptParams,
          cf_search_part \in 0..MaxSearchPart :
           ListSearch(matching, sort, spt_param, cf_search_part)
    \/ \E sort \in Sorts : ListPlain(sort)
    \/ \E page \in 1..MaxPage, per_page \in 0..MaxPerPage,
          with_notice \in BOOLEAN :
         \E db_order \in (IF listing.order = "none" THEN DbOrders
                          ELSE {"wr_id asc"}) :
           GetWrites(page, per_page, with_notice, db_order)

SpecList == InitList /\ [][NextList]_vars

-----------------------------------------------------------------------------
(* SpecView: a listing with no search as each member sees it, over tables  *)
(* whose comments may be secret.                                           *)

\* the members who read a listing: the administrators, the author of post 1,
\* the author of comment 2 and a guest
Viewers == MemberIds \cup {Guest}

\* the initial table with each of the comments 2 and 3 secret or not
ViewStores ==
    {[Writes0 EXCEPT ![2].wr_option = o2, ![3].wr_option = o3] :
        o2 \in {{}, {"secret"}}, o3 \in {{"html1"}, {"html1", "secret"}}}

\* the sets of comments a session may hold the ss_secret_comment key of
Sessions == SUBSET {c \in DOMAIN writes : writes[c].wr_is_comment = 1}

InitView ==
    /\ writes \in ViewStores
    /\ board = Board0
    /\ board_new = BoardNew0
    /\ scrap = Scrap0
    /\ point = PointAwards
    /\ mb_point = [m \in MemberIds |-> 10]
    /\ files = Files0
    /\ cache = TRUE
    /\ last = NoCall
    /\ req = [r \in Requests |-> IdleReq]
    /\ listing = NoListing

\* get_writes for the request's member and session, with the comments of the
\* page's rows
GetWritesView(page, per_page, with_notice, member, session) ==
    /\ listing.pc = "constructed"
    /\ listing' = add_additional_info_to_writes(
                      writes,
                      get_writes(writes, board.bo_notice, listing, page,
                                 per_page, with_notice, "wr_id asc"),
                      member, session)
    /\ UNCHANGED <<writes, board, board_new, scrap, point, mb_point, files,
                   cache, last, req>>

NextView ==
    \/ \E sort \in Sorts : ListPlain(sort)
    \/ \E page \in 1..MaxPage, per_page \in 0..MaxPerPage,
          with_notice \in BOOLEAN, member \in Viewers,
          session \in Sessions :
           GetWritesView(page, per_page, with_notice, member, session)

SpecView == InitView /\ [][NextView]_vars

-----------------------------------------------------------------------------
(* SpecRace: a listing request whose two queries (the page, the count) are *)
(* separate steps, and a bulk deletion that another request commits        *)
(* between them.                                                           *)

\* the start of the window, named by the request
RaceSpts == SptParams \ {None}

PageQuery(page, per_page, with_notice, db_order) ==
    /\ listing.pc = "constructed"
    /\ listing' = get_writes_page(writes, board.bo_notice, listing, page,
                                  per_page, with_notice, db_order)
    /\ UNCHANGED <<writes, board, board_new, scrap, point, mb_point, files,
                   cache, last, req>>

\* another request's bulk deletion commits after the page query; one such
\* commit per listing request
RaceDelete(wr_ids) ==
    /\ listing.pc = "paged"
    /\ last = NoCall
    /\ DeleteWrites(wr_ids)

CountQuery(sees_commit) ==
    /\ listing.pc = "paged"
    /\ listing' = get_writes_count(writes, listing, sees_commit)
    /\ UNCHANGED <<writes, board, board_new, scrap, point, mb_point, files,
                   cache, last, req>>

NextRace ==
    \/ \E matching \in Matchings, sort \in Sorts, spt_param \in RaceSpts,
          cf_search_part \in 0..MaxSearchPart :
           ListSearch(matching, sort, spt_param, cf_search_part)
    \/ \E sort \in Sorts : ListPlain(sort)
    \/ \E page \in 1..MaxPage, per_page \in 0..MaxPerPage,
          with_notice \in BOOLEAN :
         \E db_order \in (IF listing.order = "none" THEN DbOrders
                          ELSE {"wr_id asc"}) :
           PageQuery(page, per_page, with_notice, db_order)
    \/ \E wr_ids \in IdLists : RaceDelete(wr_ids)
    \/ \E sees_commit \in BOOLEAN : CountQuery(sees_commit)

SpecRace == Init /\ [][NextRace]_vars

-----------------------------------------------------------------------------
(* SpecWalk: a reader pages through a search, window by window. The first  *)
(* request names no spt, so it starts at the least wr_num of the table;    *)
(* each next request names the next_spt the listing before it exposed.     *)

\* the tables a walk can find: deleted posts leave gaps in wr_num, here
\* between post 5 and the thread of post 1
WalkStores ==
    {Writes0,
     [Writes0 EXCEPT ![5].wr_num = -3],
     [Writes0 EXCEPT ![5].wr_num = -4]}

InitWalk ==
    /\ writes \in WalkStores
    /\ board = Board0
    /\ board_new = BoardNew0
    /\ scrap = Scrap0
    /\ point = PointAwards
    /\ mb_point = [m \in MemberIds |-> 10]
    /\ files = Files0
    /\ cache = TRUE
    /\ last = NoCall
    /\ req = [r \in Requests |-> IdleReq]
    /\ listing = NoListing

\* one request of the walk: the first one, or the one for the window the
\* listing before it points to; there is none when that listing exposes no
\* next_spt
WalkStep(matching, sort, cf_search_part) ==
    /\ IF listing.pc = "idle"
       THEN listing' = ListPostService(writes, "search", matching, sort, None,
                                       cf_search_part)
       ELSE /\ listing.next_spt # None
            /\ listing' = ListPostService(writes, "search", listing.matching,
                                          listing.sort, listing.next_spt,
                                          listing.cf_search_part)
    /\ UNCHANGED <<writes, board, board_new, scrap, point, mb_point, files,
                   cache, last, req>>

NextWalk ==
    \E matching \in Matchings, sort \in Sorts,
       cf_search_part \in 0..MaxSearchPart :
        WalkStep(matching, sort, cf_search_part)

SpecWalk == InitWalk /\ [][NextWalk]_vars

-----------------------------------------------------------------------------
(* Properties                                                              *)

Comments(ws, wr_id) ==
    {i \in DOMAIN ws : ws[i].wr_parent = wr_id /\ ws[i].wr_is_comment = 1}

Posts(ws) == {i \in DOMAIN ws : ws[i].wr_is_comment = 0}

\* every way a delete-post request can be sent
PostInputs == Actors \X BOOLEAN \X BOOLEAN \X Bads
\* every way a delete-comment request can be sent
CommentInputs == Actors \X BOOLEAN \X BOOLEAN

\* C1: for a top-level post P with N live direct comments, a successful
\* delete_post(P) lowers the board's post counter by exactly 1 and its comment
\* counter by exactly N, and leaves no row with wr_parent = P in the table.
C1_DeletePostCounters ==
    \A P \in Posts(writes), inp \in PostInputs :
        LET out == delete_post(DB, P, inp[1], inp[2], inp[3], inp[4])
            N == Cardinality(Comments(writes, P))
        IN  out.result = "ok" =>
              /\ out.d.board.bo_count_write = board.bo_count_write - 1
              /\ out.d.board.bo_count_comment = board.bo_count_comment - N
              /\ \A i \in DOMAIN out.d.writes : out.d.writes[i].wr_parent # P

\* post 1 was deleted together with its two comments
C1_Witness ==
    /\ last = [op |-> "delete_post", wr_id |-> 1, result |-> "ok"]
    /\ 1 \notin DOMAIN writes
    /\ board.bo_count_comment = Board0.bo_count_comment - 2

\* C2: every remaining post's wr_comment equals the number of live comment
\* rows whose wr_parent is that post.
C2_CommentCountExact ==
    \A P \in Posts(writes) :
        writes[P].wr_comment = Cardinality(Comments(writes, P))

\* C3: the board's post counter equals the number of live non-comment rows
\* and its comment counter the number of live comment rows.
C3_BoardCountersExact ==
    /\ board.bo_count_write = Cardinality(Posts(writes))
    /\ board.bo_count_comment = Cardinality(DOMAIN writes \ Posts(writes))

\* C4: of two delete_post requests for the same post that both ran to their
\* end, at most one succeeds and the other fails with not-found; together
\* they reverse the post's ledger entry at most once and lower the board's
\* post counter at most once.
C4_ConcurrentDeleteOnce ==
    \A r1 \in Requests : \A r2 \in Requests \ {r1} :
        ( /\ req[r1].kind = "post" /\ req[r2].kind = "post"
          /\ req[r1].wr_id = req[r2].wr_id
          /\ req[r1].wr_id \in Posts(Writes0)
          /\ req[r1].pc = "done" /\ req[r2].pc = "done"
          /\ req[r1].result = "ok" /\ req[r2].result \in {"ok", "NotFound"} )
        => /\ req[r2].result = "NotFound"
           /\ req[r2].calls = <<>>
           /\ board.bo_count_write >= Board0.bo_count_write - 1

HasReply(P) ==
    \E i \in DOMAIN writes :
        /\ i # P
        /\ writes[i].wr_is_comment = 0
        /\ writes[i].wr_num = writes[P].wr_num
        /\ Len(writes[i].wr_reply) > Len(writes[P].wr_reply)
        /\ SubSeq(writes[i].wr_reply, 1, Len(writes[P].wr_reply)) = writes[P].wr_reply

\* C6 as stated: delete_post of a post that has a reply is refused with
\* Conflict and nothing is mutated.
C6_ReplyConflict ==
    \A P \in Posts(writes), inp \in PostInputs :
        HasReply(P) =>
            delete_post(DB, P, inp[1], inp[2], inp[3], inp[4])
                = Outcome(DB, "Conflict", <<>>)

\* the actors the authorization check lets through: the super administrator,
\* the row's author, and for an anonymous row the holder of the session grant
MayDelete(write, actor, with_session, grant) ==
    \/ admin_type(actor) = "super"
    \/ write.mb_id # Guest /\ write.mb_id = actor
    \/ write.mb_id = Guest /\ with_session /\ grant

\* C6 amended: delete_post of a post that has a reply mutates nothing and
\* makes no ledger call; it is refused with Conflict when the actor passes
\* the authorization check and with PermissionDenied when not.
C6_ReplyRefused ==
    \A P \in Posts(writes), inp \in PostInputs :
        HasReply(P) =>
            delete_post(DB, P, inp[1], inp[2], inp[3], inp[4])
                = Outcome(DB,
                          IF MayDelete(writes[P], inp[1], inp[2], inp[3])
                          THEN "Conflict" ELSE "PermissionDenied",
                          <<>>)

\* post 1 was refused while its reply 4 exists, and nothing has changed
C6_Witness ==
    /\ last = [op |-> "delete_post", wr_id |-> 1, result |-> "Conflict"]
    /\ 4 \in DOMAIN writes
    /\ DB = [writes |-> Writes0, board |-> Board0, board_new |-> BoardNew0,
             scrap |-> Scrap0, point |-> PointAwards,
             mb_point |-> [m \in MemberIds |-> 10], files |-> Files0,
             cache |-> TRUE]

\* C7 as stated: delete_post of an anonymous post by an actor without the
\* session grant returns PermissionDenied and mutates nothing, with and
\* without a session.
C7_AnonymousNoGrantDenied ==
    \A P \in Posts(writes), actor \in Actors, with_session \in BOOLEAN,
       bad \in Bads :
        writes[P].mb_id = Guest =>
            delete_post(DB, P, actor, with_session, FALSE, bad)
                = Outcome(DB, "PermissionDenied", <<>>)

\* C7 amended: the same for every actor but the super administrator.
C7_AnonymousNoGrantDeniedNonSuper ==
    \A P \in Posts(writes), actor \in Actors, with_session \in BOOLEAN,
       bad \in Bads :
        (writes[P].mb_id = Guest /\ admin_type(actor) # "super") =>
            delete_post(DB, P, actor, with_session, FALSE, bad)
                = Outcome(DB, "PermissionDenied", <<>>)

\* the anonymous post 4 was refused and is still there
C7_Witness ==
    /\ last = [op |-> "delete_post", wr_id |-> 4, result |-> "PermissionDenied"]
    /\ 4 \in DOMAIN writes
    /\ writes[4].mb_id = Guest

\* C8: validate_level admits every administrator, whoever wrote the row and
\* whatever the author's level and the grant; it admits another actor only if
\* they are the author or, for an anonymous row, hold the grant.
C8_AdminAlwaysAdmitted ==
    \A i \in DOMAIN writes, actor \in Actors, with_session \in BOOLEAN,
       grant \in BOOLEAN :
        LET admitted == validate_level(writes[i], actor, with_session, grant)
        IN  /\ admin_type(actor) # "" => admitted
            /\ (admin_type(actor) = "" /\ admitted) =>
                  \/ writes[i].mb_id # Guest /\ writes[i].mb_id = actor
                  \/ writes[i].mb_id = Guest /\ with_session /\ grant

\* C9: a successful delete_comment of C removes C's row, lowers by exactly 1
\* the wr_comment of the row whose wr_id is C.wr_parent and leaves every other
\* row as it was.
C9_DeleteCommentCounter ==
    \A C \in DOMAIN writes \ Posts(writes), inp \in CommentInputs :
        LET out == delete_comment_request(DB, C, inp[1], inp[2], inp[3])
            parent == writes[C].wr_parent
        IN  out.result = "ok" =>
              /\ DOMAIN out.d.writes = DOMAIN writes \ {C}
              /\ \A i \in DOMAIN out.d.writes :
                    IF i = parent
                    THEN out.d.writes[i] =
                           [writes[i] EXCEPT !.wr_comment = @ - 1]
                    ELSE out.d.writes[i] = writes[i]

\* comment 2 was deleted and post 1 counts one comment less
C9_Witness ==
    /\ last = [op |-> "delete_comment", wr_id |-> 2, result |-> "ok"]
    /\ 2 \notin DOMAIN writes
    /\ {1, 3, 5} \subseteq DOMAIN writes
    /\ writes[1].wr_comment = Writes0[1].wr_comment - 1
    /\ writes[5].wr_comment = Writes0[5].wr_comment

\* C10: a successful delete_comment calls delete_point for the comment and,
\* only if that found no entry, one compensating negative save_point.
C10_DeleteCommentReversesLedger ==
    \A C \in DOMAIN writes \ Posts(writes), inp \in CommentInputs :
        LET out == delete_comment_request(DB, C, inp[1], inp[2], inp[3])
        IN  out.result = "ok" =>
              /\ Len(out.calls) >= 1
              /\ out.calls[1].fn = "delete_point"
              /\ out.calls[1].mb_id = writes[C].mb_id
              /\ Len(out.calls) = IF out.calls[1].found THEN 1 ELSE 2
              /\ Len(out.calls) = 2 =>
                    out.calls[2].fn = "save_point" /\ out.calls[2].point < 0

-----------------------------------------------------------------------------
(* Ledger reversal, commit and cache, referential invariants               *)

\* every delete_point that found nothing is followed at once by one well-formed
\* negative save_point for the same member, and no save_point stands elsewhere
WellPaired(calls) ==
    \A k \in 1..Len(calls) :
        /\ (calls[k].fn = "delete_point" /\ ~ calls[k].found) =>
              /\ k < Len(calls)
              /\ calls[k + 1].fn = "save_point"
              /\ ~ calls[k + 1].shifted
              /\ calls[k + 1].mb_id = calls[k].mb_id
              /\ calls[k + 1].point < 0
        /\ calls[k].fn = "save_point" =>
              /\ k > 1
              /\ calls[k - 1].fn = "delete_point"
              /\ ~ calls[k - 1].found

\* the number of delete_point calls is the number of rows the engine removed
OnePerRow(out) ==
    Cardinality({k \in 1..Len(out.calls) : out.calls[k].fn = "delete_point"})
        = Cardinality(DOMAIN writes \ DOMAIN out.d.writes)

\* C11: in each deletion engine every removed row gets exactly one delete_point
\* attempt, and a compensating negative save_point is applied exactly when that
\* attempt found no entry.
C11_ReverseOrCompensateOnce ==
    /\ \A P \in DOMAIN writes, inp \in PostInputs :
          LET out == delete_post(DB, P, inp[1], inp[2], inp[3], inp[4])
          IN  out.result = "ok" => WellPaired(out.calls) /\ OnePerRow(out)
    /\ \A wr_ids \in IdLists :
          LET out == delete_writes(DB, wr_ids)
          IN  WellPaired(out.calls) /\ OnePerRow(out)
    /\ \A bn_ids \in IdLists :
          LET out == delete_board_news(DB, bn_ids)
          IN  WellPaired(out.calls) /\ OnePerRow(out)

\* C12: a deletion request whose commit the store aborts has not invalidated
\* the "latest-{bo_table}" cache.
C12_CacheOnlyAfterCommit ==
    /\ \A P \in DOMAIN writes, inp \in PostInputs :
          LET out == delete_post_aborted(DB, P, inp[1], inp[2], inp[3], inp[4])
          IN  out.result = "StoreFailure" => out.d.cache = cache
    /\ \A wr_ids \in IdLists : delete_writes_aborted(DB, wr_ids).d.cache = cache
    /\ \A bn_ids \in IdLists : delete_board_news_aborted(DB, bn_ids).d.cache = cache

\* C13: a delete_post whose commit the store aborts leaves rows, counters,
\* recency index, scraps, notice list, ledger and attachments as they were.
C13_AbortedDeletePostNoEffect ==
    \A P \in DOMAIN writes, inp \in PostInputs :
        LET out == delete_post_aborted(DB, P, inp[1], inp[2], inp[3], inp[4])
        IN  out.result = "StoreFailure" => out.d = DB

\* C14: the board's notice list names no post that has been deleted.
C14_NoDeletedNotice == board.bo_notice \subseteq Posts(writes)

\* C15: every remaining comment's wr_parent is a post that still exists.
C15_NoOrphanComment ==
    \A i \in DOMAIN writes :
        writes[i].wr_is_comment = 1 => writes[i].wr_parent \in Posts(writes)

\* C16: no BoardNew row refers to a post or comment that has been deleted.
C16_NoStaleBoardNew ==
    \A b \in DOMAIN board_new : board_new[b].wr_id \in DOMAIN writes

-----------------------------------------------------------------------------
(* Listing                                                                 *)

\* C17: for a search with start spt and width W, the window its query applies
\* and the window the query applies for the start spt + W select no row's
\* sequence number both, and together exactly the sequence numbers from spt up
\* to but excluding spt + 2W.
C17_WindowsPartition ==
    (listing.kind = "search" /\ listing.pc # "idle") =>
        LET W == search_part(listing.cf_search_part)
            spt == spt_of(listing.spt, writes)
        IN  \A n \in {writes[i].wr_num : i \in DOMAIN writes} :
              /\ ~ (between(n, spt, spt + W) /\ between(n, spt + W, spt + W + W))
              /\ (between(n, spt, spt + W) \/ between(n, spt + W, spt + W + W))
                    <=> (spt <= n /\ n < spt + 2 * W)

\* C18: a search listing exposes prev_spt = spt - W when spt is above the
\* least wr_num of the table and none otherwise, and next_spt = spt + W when
\* spt + W < 0 and none otherwise; W is cf_search_part, or 10000 when that is 0.
C18_WindowStartsExposed ==
    (listing.kind = "search" /\ listing.pc # "idle") =>
        LET W == IF listing.cf_search_part = 0 THEN 10000
                 ELSE listing.cf_search_part
            spt == spt_of(listing.spt, writes)
        IN  /\ listing.prev_spt =
                  IF \E i \in DOMAIN writes : writes[i].wr_num < spt
                  THEN Some(spt - W) ELSE None
            /\ listing.next_spt = IF spt + W < 0 THEN Some(spt + W) ELSE None

\* the rows of the search that match and lie in the window the query applies
Hits(l) ==
    LET W == search_part(l.cf_search_part)
        spt == spt_of(l.spt, writes)
    IN  {m \in l.matching : between(writes[m].wr_num, spt, spt + W)}

\* a non-comment row that is the wr_parent of a matching row of the window
ParentOfHit(l, i) ==
    /\ i \in DOMAIN writes
    /\ writes[i].wr_is_comment = 0
    /\ \E m \in Hits(l) : writes[m].wr_parent = i

\* C19: every row of a search's query, and every row a search listing returns,
\* is a non-comment row that is the wr_parent of a matching row of the window;
\* a matching comment is not in the result and its parent post, when it
\* exists, is in the result of the search's query.
C19_SearchReturnsParents ==
    listing.kind = "search" =>
        /\ \A i \in listing.query : ParentOfHit(listing, i)
        /\ \A k \in 1..Len(listing.rows) : ParentOfHit(listing, listing.rows[k])
        /\ \A m \in Hits(listing) :
              writes[m].wr_is_comment = 1 =>
                 /\ m \notin listing.query
                 /\ (listing.pc = "constructed"
                     /\ writes[m].wr_parent \in DOMAIN writes)
                        => writes[m].wr_parent \in listing.query

\* a search matched only comment 2 and its query selects post 1
C19_Witness ==
    /\ listing.kind = "search"
    /\ listing.pc = "constructed"
    /\ listing.matching = {2}
    /\ listing.query = {1}

\* C20: a listing with no search, the default ordering and notices excluded
\* returns the rows at the positions (p-1)*s+1 .. p*s of the default-ordered
\* non-comment, non-notice rows, and the row at position k (from 1) of the page
\* gets num = total_count - (p-1)*s - (k-1), total_count being the size of
\* that set.
C20_PlainPageAndOrdinals ==
    (/\ listing.pc = "done" /\ listing.kind = "plain"
     /\ listing.sort = "default" /\ ~ listing.with_notice) =>
        LET s == IF listing.per_page # 0 THEN listing.per_page
                 ELSE page_rows_config
            p == listing.page
            F == {i \in Posts(writes) : i \notin board.bo_notice}
            ordered == OrderBy(writes, F, "default")
            total == Cardinality(F)
        IN  /\ listing.total_count = total
            /\ Len(listing.rows) =
                   Cardinality({j \in ((p - 1) * s + 1)..(p * s) : j <= total})
            /\ Len(listing.num) = Len(listing.rows)
            /\ \A k \in 1..Len(listing.rows) :
                  /\ listing.rows[k] = ordered[(p - 1) * s + k]
                  /\ listing.num[k] = total - (p - 1) * s - (k - 1)

\* page 2 of size 1 over the posts 5, 1, 4: post 1 with ordinal 2
C20_Witness ==
    /\ listing.pc = "done" /\ listing.kind = "plain"
    /\ listing.sort = "default" /\ ~ listing.with_notice
    /\ listing.page = 2 /\ listing.per_page = 1
    /\ listing.total_count = 3
    /\ listing.rows = <<1>>
    /\ listing.num = <<2>>

-----------------------------------------------------------------------------
(* Comment deletion, bulk deletion and the recency index                   *)

\* C22: a delete-comment request for an id with no row fails with NotFound,
\* and for a row that is not a comment with TypeMismatch; either way no row is
\* deleted and no counter, nor anything else, is changed.
C22_DeleteCommentLoadErrors ==
    \A X \in Ids, inp \in CommentInputs :
        LET out == delete_comment_request(DB, X, inp[1], inp[2], inp[3])
        IN  /\ X \notin DOMAIN writes => out = Outcome(DB, "NotFound", <<>>)
            /\ X \in Posts(writes) => out = Outcome(DB, "TypeMismatch", <<>>)

\* a delete-comment request named post 1: type mismatch, and the thread of
\* post 1 and the counters are as they were at the start
C22_Witness ==
    /\ last = [op |-> "delete_comment", wr_id |-> 1, result |-> "TypeMismatch"]
    /\ {1, 2, 3} \subseteq DOMAIN writes
    /\ writes[1] = Writes0[1]
    /\ board = Board0

\* the actor holds the deletion grant of an anonymous comment: the grant is a
\* key of the request's session, which a request of the API does not have
HoldsGrant(with_session, grant) == with_session /\ grant

\* C23: a delete-comment request for a comment is admitted iff the actor is an
\* administrator, or the comment has an author and the actor is that author,
\* or the comment is anonymous and the actor holds the deletion grant; every
\* other request is refused with PermissionDenied and changes nothing, among
\* them every request of the API by a non-administrator for an anonymous
\* comment.
C23_CheckAuthority ==
    \A C \in DOMAIN writes \ Posts(writes), inp \in CommentInputs :
        LET actor == inp[1]
            out == delete_comment_request(DB, C, actor, inp[2], inp[3])
            admitted ==
                \/ admin_type(actor) # ""
                \/ writes[C].mb_id # Guest /\ writes[C].mb_id = actor
                \/ writes[C].mb_id = Guest /\ HoldsGrant(inp[2], inp[3])
        IN  /\ admitted <=> check_authority(writes[C], actor, inp[2], inp[3])
            /\ IF admitted THEN out.result = "ok"
               ELSE out = Outcome(DB, "PermissionDenied", <<>>)
            /\ (admin_type(actor) = "" /\ writes[C].mb_id = Guest /\ ~ inp[2])
                  => out.result = "PermissionDenied"

\* the anonymous comment 3 was asked to be deleted and the request refused
C23_Witness ==
    /\ last = [op |-> "delete_comment", wr_id |-> 3, result |-> "PermissionDenied"]
    /\ 3 \in DOMAIN writes
    /\ writes[3].mb_id = Guest
    /\ writes[3].wr_is_comment = 1

IsDeletePoint(call) == call.fn = "delete_point"

\* C24: the bulk delete removes exactly the rows whose id is among the ids
\* given, leaves every remaining row (its wr_comment included), the board's
\* counters and notice list, the recency index and the scraps as they were,
\* and its delete_point calls, one per removed row, all carry the post tag.
C24_BulkDeleteFrame ==
    \A wr_ids \in IdLists :
        LET out == delete_writes(DB, wr_ids)
            removed == wr_ids \cap DOMAIN writes
            dp == SelectSeq(out.calls, IsDeletePoint)
        IN  /\ out.d.writes = Restrict(writes, DOMAIN writes \ wr_ids)
            /\ out.d.board = board
            /\ out.d.board_new = board_new
            /\ out.d.scrap = scrap
            /\ Len(dp) = Cardinality(removed)
            /\ \A k \in 1..Len(dp) : dp[k].rel_action = TagWrite
            /\ \A i \in removed :
                  \E k \in 1..Len(dp) :
                      dp[k].mb_id = writes[i].mb_id /\ dp[k].rel_id = i

\* the bulk delete removed comment 2: post 1 still counts two comments, the
\* board's counters and the recency index are as at the start, and bob's award
\* for the comment, recorded under the comment tag, is still in the ledger
C24_Witness ==
    /\ last.op = "delete_writes"
    /\ 2 \notin DOMAIN writes
    /\ 1 \in DOMAIN writes
    /\ writes[1].wr_comment = 2
    /\ board = Board0
    /\ board_new = BoardNew0
    /\ <<"bob", 2, TagComment>> \in point

\* C25: delete_board_news removes every selected index row, also one whose
\* post is gone; for each distinct row a selected index row refers to that
\* still exists it deletes the row, makes one reverse-or-compensate with the
\* row's own tag and id and deletes the row's attachments; for an index row
\* whose post is gone it makes no ledger call and removes no attachment.
C25_DeleteBoardNews ==
    \A bn_ids \in IdLists :
        LET out == delete_board_news(DB, bn_ids)
            sel == bn_ids \cap DOMAIN board_new
            found == {board_new[b].wr_id : b \in sel} \cap DOMAIN writes
            dp == SelectSeq(out.calls, IsDeletePoint)
        IN  /\ out.d.board_new = Restrict(board_new, DOMAIN board_new \ sel)
            /\ out.d.writes = Restrict(writes, DOMAIN writes \ found)
            /\ out.d.files = files \ found
            /\ WellPaired(out.calls)
            /\ Len(dp) = Cardinality(found)
            /\ \A i \in found :
                  \E k \in 1..Len(dp) :
                      /\ dp[k].mb_id = writes[i].mb_id
                      /\ dp[k].rel_id = i
                      /\ dp[k].rel_action = IF writes[i].wr_is_comment = 1
                                            THEN TagComment ELSE TagWrite
            /\ found = {} => (out.calls = <<>> /\ out.d.point = point
                              /\ out.d.mb_point = mb_point)

\* the index row of comment 2 was removed after the comment itself had been
\* deleted by another handler: the award keyed by the comment's id is still in
\* the ledger, and post 1 and its index row are untouched
C25_Witness ==
    /\ last.op = "delete_board_news"
    /\ 2 \notin DOMAIN board_new
    /\ 2 \notin DOMAIN writes
    /\ <<"bob", 2, TagComment>> \in point
    /\ 1 \in DOMAIN writes
    /\ 1 \in DOMAIN board_new

\* C28: in a successful delete_post of P there is one delete_point call per
\* removed row; the call for a comment row names the comment's author, the
\* comment tag and P (not the comment's id), the call for the post names the
\* post's author, the post tag and P.
C28_DeletePostLedgerKeys ==
    \A P \in DOMAIN writes, inp \in PostInputs :
        LET out == delete_post(DB, P, inp[1], inp[2], inp[3], inp[4])
            removed == {i \in DOMAIN writes : writes[i].wr_parent = P}
            dp == SelectSeq(out.calls, IsDeletePoint)
            calls_for(i) ==
                {k \in 1..Len(dp) :
                    /\ dp[k].mb_id = writes[i].mb_id
                    /\ dp[k].rel_action = IF writes[i].wr_is_comment = 1
                                          THEN TagComment ELSE TagWrite}
        IN  out.result = "ok" =>
              /\ Len(dp) = Cardinality(removed)
              /\ \A k \in 1..Len(dp) : dp[k].rel_id = P
              /\ \A i \in removed : calls_for(i) # {}
              /\ \A k \in 1..Len(dp) : \E i \in removed : k \in calls_for(i)

\* post 1 was deleted with its comments: bob's award recorded for a comment
\* under the id of post 1 is reversed, the one recorded under the id of
\* comment 2 is still in the ledger
C28_Witness ==
    /\ last = [op |-> "delete_post", wr_id |-> 1, result |-> "ok"]
    /\ {1, 2, 3} \cap DOMAIN writes = {}
    /\ <<"bob", 1, TagComment>> \notin point
    /\ <<"alice", 1, TagWrite>> \notin point
    /\ <<"bob", 2, TagComment>> \in point

\* C29: when two delete-comment requests have loaded the same comment, the
\* wr_comment of its parent post is lowered by at most 1 in total and is never
\* less than the number of comments the post still has.
C29_ConcurrentCommentDeleteOnce ==
    \A r1 \in Requests :
        \A r2 \in Requests \ {r1} :
            (/\ req[r1].kind = "comment" /\ req[r2].kind = "comment"
             /\ req[r1].pc \in {"constructed", "done"}
             /\ req[r2].pc \in {"constructed", "done"}
             /\ req[r1].loaded # NoRow /\ req[r2].loaded # NoRow
             /\ req[r1].wr_id = req[r2].wr_id) =>
                LET parent == req[r1].loaded.wr_parent
                IN  parent \in DOMAIN writes =>
                      /\ Writes0[parent].wr_comment - writes[parent].wr_comment <= 1
                      /\ writes[parent].wr_comment
                            >= Cardinality(Comments(writes, parent))

-----------------------------------------------------------------------------
(* Search order and the walk over the windows                              *)

\* C26: the page of a search holds the rows at the page's positions of the
\* search's result in the order the request asks for (the sort field and
\* direction given, else the board's default ordering), as the page of a
\* listing with no search does; so one request over one table has one answer.
C26_SearchPageOrdered ==
    (listing.pc = "done" /\ listing.kind = "search") =>
        LET s == IF listing.per_page # 0 THEN listing.per_page
                 ELSE page_rows_config
            p == listing.page
            ordered == OrderBy(writes, listing.query, listing.sort)
        IN  /\ Len(listing.rows) =
                   Cardinality({j \in ((p - 1) * s + 1)..(p * s) :
                                   j <= Len(ordered)})
            /\ \A k \in 1..Len(listing.rows) :
                  listing.rows[k] = ordered[(p - 1) * s + k]

\* C27: a walk that starts at the least wr_num and follows next_spt ends with
\* a listing whose next_spt is none, and by then every row with a wr_num from
\* the least one up to 0 has been inside a visited window. The windows of the
\* walk are [spt, spt + W] for the starts least, least + W, ..., up to the
\* start of the last request, so together they span least .. spt + W.
C27_WalkCoversAll ==
    (/\ listing.kind = "search" /\ listing.pc = "constructed"
     /\ listing.next_spt = None) =>
        LET W == search_part(listing.cf_search_part)
            spt == spt_of(listing.spt, writes)
        IN  \A i \in DOMAIN writes :
              (min_spt(writes) <= writes[i].wr_num /\ writes[i].wr_num <= 0)
                  => writes[i].wr_num <= spt + W

-----------------------------------------------------------------------------
(* Secret comments                                                         *)

\* C21: a listing shows a comment with the placeholder as its content iff the
\* comment is secret and the request's member is no administrator, is not the
\* comment's author, is not the author of the comment's post and holds no
\* session grant for that comment; in every other case, and always for a
\* comment that is not secret, it shows the comment's own text. Every comment
\* of a row of the page is shown.
C21_SecretCommentRedaction ==
    listing.pc = "done" =>
        /\ DOMAIN listing.comments =
              UNION {Comments(writes, listing.rows[k]) :
                        k \in 1..Len(listing.rows)}
        /\ \A c \in DOMAIN listing.comments :
              LET shown == listing.comments[c]
                  viewer == listing.member
                  post == writes[writes[c].wr_parent]
                  hidden ==
                      /\ "secret" \in writes[c].wr_option
                      /\ admin_type(viewer) = ""
                      /\ ~ (writes[c].mb_id # Guest /\ writes[c].mb_id = viewer)
                      /\ ~ (post.mb_id # Guest /\ post.mb_id = viewer)
                      /\ c \notin listing.session
              IN  /\ shown.is_secret_content = hidden
                  /\ shown.save_content = IF hidden THEN SecretPlaceholder
                                          ELSE writes[c].wr_content
                  /\ shown.save_content = SecretPlaceholder <=> hidden

\* bob reads the thread of post 1 with both comments secret and a session
\* that holds no grant: his own comment 2 shows its text, the anonymous
\* comment 3 the placeholder
C21_Witness ==
    /\ listing.pc = "done"
    /\ listing.member = "bob"
    /\ listing.session = {}
    /\ {2, 3} \subseteq DOMAIN listing.comments
    /\ "secret" \in writes[2].wr_option
    /\ "secret" \in writes[3].wr_option
    /\ listing.comments[2].save_content = writes[2].wr_content
    /\ listing.comments[3].save_content = SecretPlaceholder
    /\ listing.comments[3].is_secret_content

-----------------------------------------------------------------------------
(* Ordinals under a concurrent deletion                                    *)

\* C30: every num a listing assigns is at least 1 and at most total_count,
\* and the nums of one page are pairwise distinct, also when a deletion is
\* committed between the page query and the count query.
C30_OrdinalsInRange ==
    listing.pc = "done" =>
        /\ Len(listing.num) = Len(listing.rows)
        /\ \A k \in 1..Len(listing.num) :
              /\ 1 <= listing.num[k]
              /\ listing.num[k] <= listing.total_count
        /\ \A j \in 1..Len(listing.num) :
              \A k \in 1..Len(listing.num) :
                  j # k => listing.num[j] # listing.num[k]

====
